---- MODULE Spec2Model ----
(***************************************************************************)
(* The request authorization-and-signing pipeline of the storage gateway   *)
(* (src/src/app/mod.rs): the Object, Set and Sign resources.                *)
(*                                                                         *)
(* A request handler runs synchronously up to the Policy Client call       *)
(* (authz.authorize), which is its only suspension point; the and_then     *)
(* closure of the handler runs when that call returns.  Strings the code   *)
(* computes on (set ids, object names, storage keys) are sequences of      *)
(* one-character strings; strings it only passes on are TLA+ strings.      *)
(***************************************************************************)
EXTENDS Integers, Sequences, FiniteSets, TLC

VARIABLES
    authz_wo,   \* Object.authz_wo / Set.authz_wo: the AUTHZ_WRITE_ONLY flag
    s3,         \* util::S3Clients: the aliases of the registered backends
    pc,         \* "idle" | "authorize" (suspended in authz.authorize) | "done"
    req,        \* the request being handled
    trace,      \* the calls the handler has made for it, in order
    held,       \* what the and_then closure captured: `resp` or `uri`
    resp,       \* the response of the request
    inflight    \* the requests the service handles concurrently, by slot

vars == <<authz_wo, s3, pc, req, trace, held, resp, inflight>>

\* ---------------------------------------------------------------- values

\* Option<T>
None == <<>>
Some(x) == <<x>>

\* http::StatusCode
OK == 200
SEE_OTHER == 303
FORBIDDEN == 403
NOT_FOUND == 404
UNPROCESSABLE_ENTITY == 422

\* The number of (name, value) pairs a SignPayload carries in `headers`.
MaxHeaders == 1

\* The number of requests the service handles at the same time.
MaxInflight == 2
Slots == 1 .. MaxInflight

S3_DEFAULT_CLIENT == "default"

Backs == {"default", "archive"}
Registries == {{"default"}, {"default", "archive"}, {"archive"}}
Buckets == {"b1", "b2", "b3", "b4"}
Subjects == {"u1"}
Referers == {"https://a.example", "https://b.example"}
Methods == {"HEAD", "GET", "PUT", "DELETE", "PATCH", "get"}
SetIds == {<<"1", "2">>, <<"x">>}
Objects == {<<"o">>, <<"1", "2", ".", "o">>}
HeaderNames == {"Content-Type", "Range"}
HeaderValues == {"text/plain"}
HeaderMaps ==
    UNION {[D -> HeaderValues] : D \in {D \in SUBSET HeaderNames : Cardinality(D) <= MaxHeaders}}

\* The set ids of the requests that exercise valid_set_id: every string of
\* at most MaxSetIdLen characters over SetIdChars, and strings around
\* u128::MAX.
MaxSetIdLen == 3
SetIdChars == {"0", "7", "+", "-", "a"}
ShortSetIds == UNION {[1..n -> SetIdChars] : n \in 0..MaxSetIdLen}

\* The answers of the Policy Client.
ZResps == {"Allow", "Deny", "TransportError"}

\* ----------------------------------------------------------- configuration

\* util::AudienceEstimator::estimate: Ok(audience) for a bucket a rule
\* matches, Err otherwise; a pure function of the bucket and the
\* configuration.
AudienceOf == [b \in {"b1", "b2", "b4"} |->
                 CASE b = "b1" -> "aud1" [] b = "b2" -> "aud2" [] b = "b4" -> "aud4"]

estimate(bucket) ==
    IF bucket \in DOMAIN AudienceOf
    THEN [ok |-> TRUE, val |-> AudienceOf[bucket]]
    ELSE [ok |-> FALSE, val |-> "no audience"]

\* The status of the error AudienceEstimator::estimate returns.
EstimateErrorStatus == FORBIDDEN

\* Set.audiences_settings / Sign.audiences_settings: audience -> the
\* referers its AudienceSettings allow.
audiences_settings ==
    [a \in {"aud1", "aud4"} |-> IF a = "aud1" THEN {"https://a.example"} ELSE {}]

\* AudienceSettings::valid_referer: no allowed referer configured means no
\* restriction; otherwise the referer must be present and allowed.
AudienceSettings_valid_referer(aud_settings, referer) ==
    \/ aud_settings = {}
    \/ referer # None /\ referer[1] \in aud_settings

\* ------------------------------------------------------------ pure helpers

\* Faulty variant: DELETE is taken for an update.
parse_action_delete_as_update(method) ==
    CASE method = "HEAD" -> [ok |-> TRUE, val |-> "read"]
      [] method = "GET" -> [ok |-> TRUE, val |-> "read"]
      [] method = "PUT" -> [ok |-> TRUE, val |-> "update"]
      [] method = "DELETE" -> [ok |-> TRUE, val |-> "update"]
      [] OTHER -> [ok |-> FALSE, val |-> "invalid method"]

\* fn parse_action
parse_action(method) ==
    CASE method = "HEAD" -> [ok |-> TRUE, val |-> "read"]
      [] method = "GET" -> [ok |-> TRUE, val |-> "read"]
      [] method = "PUT" -> [ok |-> TRUE, val |-> "update"]
      [] method = "DELETE" -> [ok |-> TRUE, val |-> "delete"]
      [] OTHER -> [ok |-> FALSE, val |-> "invalid method"]

\* Faulty variant: the arguments of the format are swapped.
s3_object_swapped(set, object) == object \o <<".">> \o set

\* fn s3_object: format!("{set}.{object}")
s3_object(set, object) == set \o <<".">> \o object

\* The decimal digits and their values.
DigitValue ==
    [c \in {"0", "1", "2", "3", "4", "5", "6", "7", "8", "9"} |->
        CASE c = "0" -> 0 [] c = "1" -> 1 [] c = "2" -> 2 [] c = "3" -> 3
          [] c = "4" -> 4 [] c = "5" -> 5 [] c = "6" -> 6 [] c = "7" -> 7
          [] c = "8" -> 8 [] c = "9" -> 9]

\* u128::MAX = 2^128 - 1, digit by digit.
U128MaxDigits ==
    <<3, 4, 0, 2, 8, 2, 3, 6, 6, 9, 2, 0, 9, 3, 8, 4, 6, 3, 4, 6,
      3, 3, 7, 4, 6, 0, 7, 4, 3, 1, 7, 6, 8, 2, 1, 1, 4, 5, 5>>

RECURSIVE StripZeros(_)
StripZeros(ds) ==
    IF ds # <<>> /\ Head(ds) = 0 THEN StripZeros(Tail(ds)) ELSE ds

RECURSIVE LexLeq(_, _)
\* ds <= es for digit sequences of the same length
LexLeq(ds, es) ==
    \/ ds = <<>>
    \/ Head(ds) < Head(es)
    \/ Head(ds) = Head(es) /\ LexLeq(Tail(ds), Tail(es))

\* The digits denote a number that fits a u128 (no PosOverflow).
FitsU128(ds) ==
    LET n == StripZeros(ds) IN
    \/ Len(n) < Len(U128MaxDigits)
    \/ Len(n) = Len(U128MaxDigits) /\ LexLeq(n, U128MaxDigits)

\* str::parse::<u128>, i.e. u128::from_str_radix(s, 10): the empty string and
\* a lone sign are errors, one leading "+" is skipped (a "-" is no digit of an
\* unsigned type), every other character must be a decimal digit and the
\* value must not overflow.
parse_u128_is_ok(s) ==
    LET body == IF s # <<>> /\ Head(s) = "+" THEN Tail(s) ELSE s IN
    /\ s # <<>>
    /\ body # <<>>
    /\ \A i \in 1..Len(body) : body[i] \in DOMAIN DigitValue
    /\ FitsU128([i \in 1..Len(body) |-> DigitValue[body[i]]])

\* u128::MAX and u128::MAX + 1 as strings.
DecimalChars == <<"0", "1", "2", "3", "4", "5", "6", "7", "8", "9">>
U128MaxString == [i \in 1..Len(U128MaxDigits) |-> DecimalChars[U128MaxDigits[i] + 1]]
U128OverString == [U128MaxString EXCEPT ![Len(U128MaxDigits)] = "6"]
LongSetIds ==
    {U128MaxString, U128OverString, <<"0">> \o U128MaxString, <<"0">> \o U128OverString,
     <<"+">> \o U128MaxString, <<"-">> \o U128MaxString, U128MaxString \o <<"0">>}

\* Faulty variant: the leading digits are parsed and the rest is ignored.
valid_set_id_leading_digits(set_id) ==
    set_id # <<>> /\ set_id[1] \in DOMAIN DigitValue

\* fn valid_set_id
valid_set_id(set_id) == parse_u128_is_ok(set_id)

\* ------------------------------------------------------------- responses

NoResp ==
    [status |-> 0, kind |-> "", detail |-> "", location |-> None, uri |-> None, body |-> ""]

\* tower_web Error::builder().kind(kind, _).status(status).detail(detail).build()
MkError(kind, status, detail) ==
    [status |-> status, kind |-> kind, detail |-> detail, location |-> None, uri |-> None,
     body |-> "error"]

\* fn redirect: 303 with a location header and an empty body
redirect(uri) ==
    [status |-> SEE_OTHER, kind |-> "", detail |-> "", location |-> Some(uri), uri |-> None,
     body |-> ""]

\* struct SignResponse, #[web(status = "200")]
SignResponse(uri) ==
    [status |-> OK, kind |-> "", detail |-> "", location |-> None, uri |-> Some(uri),
     body |-> "json"]

\* --------------------------------------------------------- collaborators

\* s3::Client::presigned_url: the signed URL of (method, bucket, key) on the
\* backend, or the signer's error; `sok` is the signer's answer.
presigned_url(back, method, bucket, key, sok) ==
    IF sok
    THEN [ok |-> TRUE, val |-> <<"url", back, method, bucket, key>>]
    ELSE [ok |-> FALSE, val |-> <<"signing error">>]

\* util::S3SignedRequestBuilder::build: the signed URI of the request built
\* from method, bucket, object key and headers, or the builder's own error.
BuildErrorStatus == UNPROCESSABLE_ENTITY

S3SignedRequestBuilder_build(back, method, bucket, key, headers, sok) ==
    IF sok
    THEN [ok |-> TRUE, val |-> <<"uri", back, method, bucket, key, headers>>]
    ELSE [ok |-> FALSE,
          val |-> MkError("s3_signed_request_builder_error", BuildErrorStatus, "build")]

\* ------------------------------------------------------- handler results

\* One call a handler made, and whether it succeeded.
Step(op, args, ok) == [op |-> op, args |-> args, ok |-> ok]

\* The handler returned a ready future: the request is answered.
Outcome(tr, r) == [trace |-> tr, pc |-> "done", resp |-> r, held |-> None]

\* The handler returned the authorize future: the request is suspended and
\* the and_then closure holds `h`.
Suspend(tr, h) == [trace |-> tr, pc |-> "authorize", resp |-> NoResp, held |-> Some(h)]

Prepend(tr, out) == [out EXCEPT !.trace = tr \o @]

\* -------------------------------------------------------- Object resource

\* Faulty variant: the closure returns the captured `resp` whatever the answer is.
Object_authz_then_ignores_answer(zresp, resp_) == resp_

\* Object::read_authz, the and_then closure: the captured `resp` on Ok, a
\* 403 on Err (a deny and a transport error alike).
Object_authz_then(zresp, resp_) ==
    IF zresp = "Allow"
    THEN resp_
    ELSE MkError("object_error", FORBIDDEN, zresp)

\* Faulty variant: a signing error is mapped to 403.
Object_read_authz_sign_error_forbidden(back, bucket, object, sub, sok) ==
    LET zobj == <<"buckets", bucket, "objects", object>>
        zact == "read"
        signed == presigned_url(back, "GET", bucket, object, sok)
        resp_ == IF signed.ok
                 THEN redirect(signed.val)
                 ELSE MkError("object_error", FORBIDDEN, "signing error")
        aud == estimate(bucket)
        tr == <<Step("presigned_url", <<back, "GET", bucket, object>>, signed.ok),
                Step("estimate", <<bucket>>, aud.ok)>>
    IN  IF ~aud.ok
        THEN Outcome(tr, MkError("audience_estimator_error", EstimateErrorStatus, aud.val))
        ELSE Suspend(Append(tr, Step("authorize", <<aud.val, sub, zobj, zact>>, TRUE)), resp_)

\* Faulty variant: a bucket without an audience is authorized against an
\* empty audience.
Object_read_authz_default_audience(back, bucket, object, sub, sok) ==
    LET zobj == <<"buckets", bucket, "objects", object>>
        zact == "read"
        signed == presigned_url(back, "GET", bucket, object, sok)
        resp_ == IF signed.ok
                 THEN redirect(signed.val)
                 ELSE MkError("object_error", UNPROCESSABLE_ENTITY, "signing error")
        aud == estimate(bucket)
        audience == IF aud.ok THEN aud.val ELSE ""
        tr == <<Step("presigned_url", <<back, "GET", bucket, object>>, signed.ok),
                Step("estimate", <<bucket>>, aud.ok)>>
    IN  Suspend(Append(tr, Step("authorize", <<audience, sub, zobj, zact>>, TRUE)), resp_)

\* Object::read_authz up to the authorize call: `resp` is built first (the
\* presigned URL, or the 422 of a signing error), then the audience is
\* estimated, then the Policy Client is called.
Object_read_authz(back, bucket, object, sub, sok) ==
    LET zobj == <<"buckets", bucket, "objects", object>>
        zact == "read"
        signed == presigned_url(back, "GET", bucket, object, sok)
        resp_ == IF signed.ok
                 THEN redirect(signed.val)
                 ELSE MkError("object_error", UNPROCESSABLE_ENTITY, "signing error")
        aud == estimate(bucket)
        tr == <<Step("presigned_url", <<back, "GET", bucket, object>>, signed.ok),
                Step("estimate", <<bucket>>, aud.ok)>>
    IN  IF ~aud.ok
        THEN Outcome(tr, MkError("audience_estimator_error", EstimateErrorStatus, aud.val))
        ELSE Suspend(Append(tr, Step("authorize", <<aud.val, sub, zobj, zact>>, TRUE)), resp_)

\* Faulty variant: the subject is required before the bypass flag is looked at.
Object_read_ns_subject_first(back, bucket, object, maybe_sub, sok) ==
    LET found == back \in s3
        tr == <<Step("s3.get", <<back>>, found)>>
    IN  IF ~found
        THEN Outcome(tr, MkError("object_error", NOT_FOUND, "Backend is not found"))
        ELSE IF maybe_sub = None
        THEN Outcome(tr, MkError("object_error", FORBIDDEN, "missing an access token"))
        ELSE IF ~authz_wo
        THEN Prepend(tr, Object_read_authz(back, bucket, object, maybe_sub[1], sok))
        ELSE LET signed == presigned_url(back, "GET", bucket, object, sok) IN
             Outcome(Append(tr, Step("presigned_url", <<back, "GET", bucket, object>>, signed.ok)),
                     IF signed.ok
                     THEN redirect(signed.val)
                     ELSE MkError("object_error", UNPROCESSABLE_ENTITY, "signing error"))

\* Faulty variant: a request without a subject is authorized as an anonymous one.
Object_read_ns_anonymous(back, bucket, object, maybe_sub, sok) ==
    LET found == back \in s3
        tr == <<Step("s3.get", <<back>>, found)>>
        sub == IF maybe_sub # None THEN maybe_sub[1] ELSE "anonymous"
    IN  IF ~found
        THEN Outcome(tr, MkError("object_error", NOT_FOUND, "Backend is not found"))
        ELSE IF ~authz_wo
        THEN Prepend(tr, Object_read_authz(back, bucket, object, sub, sok))
        ELSE LET signed == presigned_url(back, "GET", bucket, object, sok) IN
             Outcome(Append(tr, Step("presigned_url", <<back, "GET", bucket, object>>, signed.ok)),
                     IF signed.ok
                     THEN redirect(signed.val)
                     ELSE MkError("object_error", UNPROCESSABLE_ENTITY, "signing error"))

\* Faulty variant: an Object read is held to the referer settings of the
\* bucket's audience, as a request without a Referer.
Object_read_ns_referer_restricted(back, bucket, object, maybe_sub, sok) ==
    LET found == back \in s3
        t1 == <<Step("s3.get", <<back>>, found)>>
        aud == estimate(bucket)
        valid == /\ aud.ok
                 /\ aud.val \in DOMAIN audiences_settings
                 /\ AudienceSettings_valid_referer(audiences_settings[aud.val], None)
        tr == Append(t1, Step("valid_referer", <<bucket, None>>, valid))
    IN  IF ~found
        THEN Outcome(t1, MkError("object_error", NOT_FOUND, "Backend is not found"))
        ELSE IF ~valid
        THEN Outcome(tr, MkError("object_error", FORBIDDEN, "Invalid request"))
        ELSE IF ~authz_wo
        THEN IF maybe_sub # None
             THEN Prepend(tr, Object_read_authz(back, bucket, object, maybe_sub[1], sok))
             ELSE Outcome(tr, MkError("object_error", FORBIDDEN, "missing an access token"))
        ELSE LET signed == presigned_url(back, "GET", bucket, object, sok) IN
             Outcome(Append(tr, Step("presigned_url", <<back, "GET", bucket, object>>, signed.ok)),
                     IF signed.ok
                     THEN redirect(signed.val)
                     ELSE MkError("object_error", UNPROCESSABLE_ENTITY, "signing error"))

\* Object::read_ns
Object_read_ns(back, bucket, object, maybe_sub, sok) ==
    LET found == back \in s3
        tr == <<Step("s3.get", <<back>>, found)>>
    IN  IF ~found
        THEN Outcome(tr, MkError("object_error", NOT_FOUND, "Backend is not found"))
        ELSE IF ~authz_wo
        THEN IF maybe_sub # None
             THEN Prepend(tr, Object_read_authz(back, bucket, object, maybe_sub[1], sok))
             ELSE Outcome(tr, MkError("object_error", FORBIDDEN, "missing an access token"))
        ELSE LET signed == presigned_url(back, "GET", bucket, object, sok) IN
             Outcome(Append(tr, Step("presigned_url", <<back, "GET", bucket, object>>, signed.ok)),
                     IF signed.ok
                     THEN redirect(signed.val)
                     ELSE MkError("object_error", UNPROCESSABLE_ENTITY, "signing error"))

\* Faulty variant: a request that names no backend is served by another one.
Object_read_other_backend(bucket, object, maybe_sub, sok) ==
    Object_read_ns("archive", bucket, object, maybe_sub, sok)

\* Object::read: read_ns on the default backend
Object_read(bucket, object, maybe_sub, sok) ==
    Object_read_ns(S3_DEFAULT_CLIENT, bucket, object, maybe_sub, sok)

\* ----------------------------------------------------------- Set resource

\* Faulty variant: a failed audience estimation is answered 403, as a rejected
\* referer is.
ValidReferer_estimate_forbidden(kind, bucket, referer) ==
    LET aud == estimate(bucket)
        t1 == <<Step("estimate", <<bucket>>, aud.ok)>>
        found == aud.ok /\ aud.val \in DOMAIN audiences_settings
        t2 == Append(t1, Step("audiences_settings.get", <<aud.val>>, found))
        valid == found /\ AudienceSettings_valid_referer(audiences_settings[aud.val], referer)
        t3 == Append(t2, Step("valid_referer", <<aud.val, referer>>, valid))
    IN  IF ~aud.ok
        THEN [ok |-> FALSE, trace |-> t1,
              err |-> MkError(kind, FORBIDDEN, "Audience estimate for bucket not found")]
        ELSE IF ~found
        THEN [ok |-> FALSE, trace |-> t2,
              err |-> MkError(kind, NOT_FOUND, "Audience settings for bucket not found")]
        ELSE IF ~valid
        THEN [ok |-> FALSE, trace |-> t3, err |-> MkError(kind, FORBIDDEN, "Invalid request")]
        ELSE [ok |-> TRUE, trace |-> t3, err |-> NoResp]

\* Faulty variant: the answer of AudienceSettings::valid_referer is not negated, so
\* an accepted referer is rejected and a rejected one passes.
ValidReferer_not_negated(kind, bucket, referer) ==
    LET aud == estimate(bucket)
        t1 == <<Step("estimate", <<bucket>>, aud.ok)>>
        found == aud.ok /\ aud.val \in DOMAIN audiences_settings
        t2 == Append(t1, Step("audiences_settings.get", <<aud.val>>, found))
        valid == found /\ AudienceSettings_valid_referer(audiences_settings[aud.val], referer)
        t3 == Append(t2, Step("valid_referer", <<aud.val, referer>>, valid))
    IN  IF ~aud.ok
        THEN [ok |-> FALSE, trace |-> t1,
              err |-> MkError(kind, NOT_FOUND, "Audience estimate for bucket not found")]
        ELSE IF ~found
        THEN [ok |-> FALSE, trace |-> t2,
              err |-> MkError(kind, NOT_FOUND, "Audience settings for bucket not found")]
        ELSE IF valid
        THEN [ok |-> FALSE, trace |-> t3, err |-> MkError(kind, FORBIDDEN, "Invalid request")]
        ELSE [ok |-> TRUE, trace |-> t3, err |-> NoResp]

\* Set::valid_referer / Sign::valid_referer, which differ in the error kind:
\* the audience of the bucket, its settings, the referer against them.
ValidReferer(kind, bucket, referer) ==
    LET aud == estimate(bucket)
        t1 == <<Step("estimate", <<bucket>>, aud.ok)>>
        found == aud.ok /\ aud.val \in DOMAIN audiences_settings
        t2 == Append(t1, Step("audiences_settings.get", <<aud.val>>, found))
        valid == found /\ AudienceSettings_valid_referer(audiences_settings[aud.val], referer)
        t3 == Append(t2, Step("valid_referer", <<aud.val, referer>>, valid))
    IN  IF ~aud.ok
        THEN [ok |-> FALSE, trace |-> t1,
              err |-> MkError(kind, NOT_FOUND, "Audience estimate for bucket not found")]
        ELSE IF ~found
        THEN [ok |-> FALSE, trace |-> t2,
              err |-> MkError(kind, NOT_FOUND, "Audience settings for bucket not found")]
        ELSE IF ~valid
        THEN [ok |-> FALSE, trace |-> t3, err |-> MkError(kind, FORBIDDEN, "Invalid request")]
        ELSE [ok |-> TRUE, trace |-> t3, err |-> NoResp]

\* Set::valid_referer
Set_valid_referer(bucket, referer) == ValidReferer("set_error", bucket, referer)

\* Faulty variant: only a deny is refused; a transport error passes as an allow.
Set_authz_then_transport_error_passes(zresp, resp_) ==
    IF zresp # "Deny"
    THEN resp_
    ELSE MkError("set_error", FORBIDDEN, zresp)

\* Set::read_authz, the and_then closure
Set_authz_then(zresp, resp_) ==
    IF zresp = "Allow"
    THEN resp_
    ELSE MkError("set_error", FORBIDDEN, zresp)

\* Faulty variant: the authorize call is left out; `resp` is returned as it is.
Set_read_authz_without_authorize(back, bucket, set, object, sub, sok) ==
    LET key == s3_object(set, object)
        signed == presigned_url(back, "GET", bucket, key, sok)
        resp_ == IF signed.ok
                 THEN redirect(signed.val)
                 ELSE MkError("set_error", UNPROCESSABLE_ENTITY, "signing error")
        aud == estimate(bucket)
        tr == <<Step("presigned_url", <<back, "GET", bucket, key>>, signed.ok),
                Step("estimate", <<bucket>>, aud.ok)>>
    IN  IF ~aud.ok
        THEN Outcome(tr, MkError("audience_estimator_error", EstimateErrorStatus, aud.val))
        ELSE Outcome(tr, resp_)

\* Set::read_authz up to the authorize call
Set_read_authz(back, bucket, set, object, sub, sok) ==
    LET zobj == <<"buckets", bucket, "sets", set>>
        zact == "read"
        key == s3_object(set, object)
        signed == presigned_url(back, "GET", bucket, key, sok)
        resp_ == IF signed.ok
                 THEN redirect(signed.val)
                 ELSE MkError("set_error", UNPROCESSABLE_ENTITY, "signing error")
        aud == estimate(bucket)
        tr == <<Step("presigned_url", <<back, "GET", bucket, key>>, signed.ok),
                Step("estimate", <<bucket>>, aud.ok)>>
    IN  IF ~aud.ok
        THEN Outcome(tr, MkError("audience_estimator_error", EstimateErrorStatus, aud.val))
        ELSE Suspend(Append(tr, Step("authorize", <<aud.val, sub, zobj, zact>>, TRUE)), resp_)

\* Faulty variant: the set id is validated before the backend is resolved.
Set_read_ns_set_id_first(back, bucket, set, object, maybe_sub, referer, sok) ==
    LET valid == valid_set_id(set)
        t1 == <<Step("valid_set_id", <<set>>, valid)>>
        found == back \in s3
        t2 == Append(t1, Step("s3.get", <<back>>, found))
        ref == Set_valid_referer(bucket, referer)
        t3 == t2 \o ref.trace
    IN  IF ~valid
        THEN Outcome(t1, MkError("set_error", FORBIDDEN, "Invalid set id"))
        ELSE IF ~found
        THEN Outcome(t2, MkError("set_error", NOT_FOUND, "Backend is not found"))
        ELSE IF ~ref.ok
        THEN Outcome(t3, ref.err)
        ELSE IF ~authz_wo
        THEN IF maybe_sub # None
             THEN Prepend(t3, Set_read_authz(back, bucket, set, object, maybe_sub[1], sok))
             ELSE Outcome(t3, MkError("set_error", FORBIDDEN, "missing an access token"))
        ELSE LET key == s3_object(set, object)
                 signed == presigned_url(back, "GET", bucket, key, sok) IN
             Outcome(Append(t3, Step("presigned_url", <<back, "GET", bucket, key>>, signed.ok)),
                     IF signed.ok
                     THEN redirect(signed.val)
                     ELSE MkError("set_error", UNPROCESSABLE_ENTITY, "signing error"))

\* Faulty variant: the referer is validated before the set id.
Set_read_ns_referer_first(back, bucket, set, object, maybe_sub, referer, sok) ==
    LET found == back \in s3
        t1 == <<Step("s3.get", <<back>>, found)>>
        ref == Set_valid_referer(bucket, referer)
        t2 == t1 \o ref.trace
        valid == valid_set_id(set)
        t3 == Append(t2, Step("valid_set_id", <<set>>, valid))
    IN  IF ~found
        THEN Outcome(t1, MkError("set_error", NOT_FOUND, "Backend is not found"))
        ELSE IF ~ref.ok
        THEN Outcome(t2, ref.err)
        ELSE IF ~valid
        THEN Outcome(t3, MkError("set_error", FORBIDDEN, "Invalid set id"))
        ELSE IF ~authz_wo
        THEN IF maybe_sub # None
             THEN Prepend(t3, Set_read_authz(back, bucket, set, object, maybe_sub[1], sok))
             ELSE Outcome(t3, MkError("set_error", FORBIDDEN, "missing an access token"))
        ELSE LET key == s3_object(set, object)
                 signed == presigned_url(back, "GET", bucket, key, sok) IN
             Outcome(Append(t3, Step("presigned_url", <<back, "GET", bucket, key>>, signed.ok)),
                     IF signed.ok
                     THEN redirect(signed.val)
                     ELSE MkError("set_error", UNPROCESSABLE_ENTITY, "signing error"))

\* Set::read_ns
\* Faulty variant: the error of valid_referer is swallowed and the read goes on.
Set_read_ns_referer_error_swallowed(back, bucket, set, object, maybe_sub, referer, sok) ==
    LET found == back \in s3
        t1 == <<Step("s3.get", <<back>>, found)>>
        valid == valid_set_id(set)
        t2 == Append(t1, Step("valid_set_id", <<set>>, valid))
        ref == Set_valid_referer(bucket, referer)
        t3 == t2 \o ref.trace
    IN  IF ~found
        THEN Outcome(t1, MkError("set_error", NOT_FOUND, "Backend is not found"))
        ELSE IF ~valid
        THEN Outcome(t2, MkError("set_error", FORBIDDEN, "Invalid set id"))
        ELSE IF ~authz_wo
        THEN IF maybe_sub # None
             THEN Prepend(t3, Set_read_authz(back, bucket, set, object, maybe_sub[1], sok))
             ELSE Outcome(t3, MkError("set_error", FORBIDDEN, "missing an access token"))
        ELSE LET key == s3_object(set, object)
                 signed == presigned_url(back, "GET", bucket, key, sok) IN
             Outcome(Append(t3, Step("presigned_url", <<back, "GET", bucket, key>>, signed.ok)),
                     IF signed.ok
                     THEN redirect(signed.val)
                     ELSE MkError("set_error", UNPROCESSABLE_ENTITY, "signing error"))

Set_read_ns(back, bucket, set, object, maybe_sub, referer, sok) ==
    LET found == back \in s3
        t1 == <<Step("s3.get", <<back>>, found)>>
        valid == valid_set_id(set)
        t2 == Append(t1, Step("valid_set_id", <<set>>, valid))
        ref == Set_valid_referer(bucket, referer)
        t3 == t2 \o ref.trace
    IN  IF ~found
        THEN Outcome(t1, MkError("set_error", NOT_FOUND, "Backend is not found"))
        ELSE IF ~valid
        THEN Outcome(t2, MkError("set_error", FORBIDDEN, "Invalid set id"))
        ELSE IF ~ref.ok
        THEN Outcome(t3, ref.err)
        ELSE IF ~authz_wo
        THEN IF maybe_sub # None
             THEN Prepend(t3, Set_read_authz(back, bucket, set, object, maybe_sub[1], sok))
             ELSE Outcome(t3, MkError("set_error", FORBIDDEN, "missing an access token"))
        ELSE LET key == s3_object(set, object)
                 signed == presigned_url(back, "GET", bucket, key, sok) IN
             Outcome(Append(t3, Step("presigned_url", <<back, "GET", bucket, key>>, signed.ok)),
                     IF signed.ok
                     THEN redirect(signed.val)
                     ELSE MkError("set_error", UNPROCESSABLE_ENTITY, "signing error"))

\* Set::read: read_ns on the default backend
Set_read(bucket, set, object, maybe_sub, referer, sok) ==
    Set_read_ns(S3_DEFAULT_CLIENT, bucket, set, object, maybe_sub, referer, sok)

\* ---------------------------------------------------------- Sign resource

\* Sign::valid_referer
Sign_valid_referer(bucket, referer) == ValidReferer("sign_error", bucket, referer)

\* Sign::sign_ns, the and_then closure: the URI built before the call on Ok
Sign_authz_then(zresp, uri) ==
    IF zresp = "Allow"
    THEN SignResponse(uri)
    ELSE MkError("sign_error", FORBIDDEN, zresp)

\* Faulty variant: the result of the builder is looked at only after the
\* Policy Client has answered.
Sign_sign_authz_build_unchecked(back, body, sub, sok) ==
    LET object == IF body.set # None
                  THEN s3_object(body.set[1], body.object)
                  ELSE body.object
        zobj == IF body.set # None
                THEN <<"buckets", body.bucket, "sets", body.set[1]>>
                ELSE <<"buckets", body.bucket, "objects", body.object>>
        zact == parse_action(body.method)
        t1 == <<Step("parse_action", <<body.method>>, zact.ok)>>
        built == S3SignedRequestBuilder_build(back, body.method, body.bucket, object,
                                              body.headers, sok)
        t2 == Append(t1, Step("build", <<back, body.method, body.bucket, object, body.headers>>,
                              built.ok))
        aud == estimate(body.bucket)
        t3 == Append(t2, Step("estimate", <<body.bucket>>, aud.ok))
    IN  IF ~zact.ok
        THEN Outcome(t1, MkError("sign_error", FORBIDDEN, zact.val))
        ELSE IF ~aud.ok
        THEN Outcome(t3, MkError("audience_estimator_error", EstimateErrorStatus, aud.val))
        ELSE Suspend(Append(t3, Step("authorize", <<aud.val, sub, zobj, zact.val>>, TRUE)),
                     built.val)

\* Sign::sign_ns from the resource path on (the checks have passed): the
\* key and the resource path, the action, the signed URI, the audience, the
\* Policy Client call.  body = [bucket, set, object, method, headers].
Sign_sign_authz(back, body, sub, sok) ==
    LET object == IF body.set # None
                  THEN s3_object(body.set[1], body.object)
                  ELSE body.object
        zobj == IF body.set # None
                THEN <<"buckets", body.bucket, "sets", body.set[1]>>
                ELSE <<"buckets", body.bucket, "objects", body.object>>
        zact == parse_action(body.method)
        t1 == <<Step("parse_action", <<body.method>>, zact.ok)>>
        built == S3SignedRequestBuilder_build(back, body.method, body.bucket, object,
                                              body.headers, sok)
        t2 == Append(t1, Step("build", <<back, body.method, body.bucket, object, body.headers>>,
                              built.ok))
        aud == estimate(body.bucket)
        t3 == Append(t2, Step("estimate", <<body.bucket>>, aud.ok))
    IN  IF ~zact.ok
        THEN Outcome(t1, MkError("sign_error", FORBIDDEN, zact.val))
        ELSE IF ~built.ok
        THEN Outcome(t2, built.val)
        ELSE IF ~aud.ok
        THEN Outcome(t3, MkError("audience_estimator_error", EstimateErrorStatus, aud.val))
        ELSE Suspend(Append(t3, Step("authorize", <<aud.val, sub, zobj, zact.val>>, TRUE)),
                     built.val)

\* Faulty variant: the shape of a supplied set id is not validated.
Sign_sign_ns_set_id_unchecked(back, body, sub, referer, sok) ==
    LET found == back \in s3
        t1 == <<Step("s3.get", <<back>>, found)>>
        ref == Sign_valid_referer(body.bucket, referer)
        t3 == t1 \o ref.trace
    IN  IF ~found
        THEN Outcome(t1, MkError("sign_error", NOT_FOUND, "Backend is not found"))
        ELSE IF ~ref.ok
        THEN Outcome(t3, ref.err)
        ELSE Prepend(t3, Sign_sign_authz(back, body, sub, sok))

\* Sign::sign_ns
Sign_sign_ns(back, body, sub, referer, sok) ==
    LET found == back \in s3
        t1 == <<Step("s3.get", <<back>>, found)>>
        valid == body.set = None \/ valid_set_id(body.set[1])
        t2 == IF body.set # None
              THEN Append(t1, Step("valid_set_id", <<body.set[1]>>, valid))
              ELSE t1
        ref == Sign_valid_referer(body.bucket, referer)
        t3 == t2 \o ref.trace
    IN  IF ~found
        THEN Outcome(t1, MkError("sign_error", NOT_FOUND, "Backend is not found"))
        ELSE IF ~valid
        THEN Outcome(t2, MkError("sign_error", FORBIDDEN, "Invalid set id"))
        ELSE IF ~ref.ok
        THEN Outcome(t3, ref.err)
        ELSE Prepend(t3, Sign_sign_authz(back, body, sub, sok))

\* Sign::sign: sign_ns on the default backend
Sign_sign(body, sub, referer, sok) ==
    Sign_sign_ns(S3_DEFAULT_CLIENT, body, sub, referer, sok)

\* ---------------------------------------------------------- the requests

NoReq ==
    [kind |-> "", route |-> "", back |-> "", bucket |-> "", set |-> None, object |-> <<>>,
     sub |-> None, referer |-> None, method |-> "", headers |-> <<>>]

MaybeSubjects == {None} \cup {Some(u) : u \in Subjects}
MaybeReferers == {None} \cup {Some(r) : r \in Referers}
MaybeSetIds == {None} \cup {Some(i) : i \in SetIds}

\* The Referer header of an Object read is part of the request, and is not
\* among the arguments of the handler.
ObjectReq(route, back, bucket, object, maybe_sub, referer) ==
    [kind |-> "Object", route |-> route, back |-> back, bucket |-> bucket, set |-> None,
     object |-> object, sub |-> maybe_sub, referer |-> referer, method |-> "GET",
     headers |-> <<>>]

SetReq(route, back, bucket, set, object, maybe_sub, referer) ==
    [kind |-> "Set", route |-> route, back |-> back, bucket |-> bucket, set |-> Some(set),
     object |-> object, sub |-> maybe_sub, referer |-> referer, method |-> "GET",
     headers |-> <<>>]

\* struct SignPayload
SignPayload(bucket, set, object, method, headers) ==
    [bucket |-> bucket, set |-> set, object |-> object, method |-> method,
     headers |-> headers]

SignReq(route, back, body, sub, referer) ==
    [kind |-> "Sign", route |-> route, back |-> back, bucket |-> body.bucket,
     set |-> body.set, object |-> body.object, sub |-> Some(sub), referer |-> referer,
     method |-> body.method, headers |-> body.headers]

\* A slot of the service: the future of one request, with what it owns (its
\* request, the calls made for it, what its closure captured, its response)
\* and the answers its collaborators give it: `sok`, whether the signer
\* succeeds for it, and `answer`, what the Policy Client returns for it.
IdleSlot ==
    [pc |-> "idle", req |-> NoReq, trace |-> <<>>, held |-> None, resp |-> NoResp,
     sok |-> FALSE, answer |-> ""]

\* The requests that are handled concurrently.
ConcReqs ==
    {ObjectReq("read", S3_DEFAULT_CLIENT, "b1", <<"o">>, sub, None) : sub \in MaybeSubjects}
    \cup {ObjectReq("read", S3_DEFAULT_CLIENT, "b1", <<"1", "2", ".", "o">>, Some("u1"),
                    Some("https://b.example")),
          SetReq("read", S3_DEFAULT_CLIENT, "b1", <<"1", "2">>, <<"o">>, Some("u1"),
                 Some("https://a.example")),
          SignReq("sign", S3_DEFAULT_CLIENT, SignPayload("b4", None, <<"o">>, "PUT", <<>>),
                  "u1", None)}

\* The routes of the service: the handler a request is dispatched to.
Serve(r, sok) ==
    CASE r.kind = "Object" /\ r.route = "read" ->
            Object_read(r.bucket, r.object, r.sub, sok)
      [] r.kind = "Object" /\ r.route = "read_ns" ->
            Object_read_ns(r.back, r.bucket, r.object, r.sub, sok)
      [] r.kind = "Set" /\ r.route = "read" ->
            Set_read(r.bucket, r.set[1], r.object, r.sub, r.referer, sok)
      [] r.kind = "Set" /\ r.route = "read_ns" ->
            Set_read_ns(r.back, r.bucket, r.set[1], r.object, r.sub, r.referer, sok)
      [] r.kind = "Sign" /\ r.route = "sign" ->
            Sign_sign(SignPayload(r.bucket, r.set, r.object, r.method, r.headers),
                      r.sub[1], r.referer, sok)
      [] r.kind = "Sign" /\ r.route = "sign_ns" ->
            Sign_sign_ns(r.back, SignPayload(r.bucket, r.set, r.object, r.method, r.headers),
                         r.sub[1], r.referer, sok)

\* The and_then closure of the handler of a resource.
Then(kind, zresp, h) ==
    CASE kind = "Object" -> Object_authz_then(zresp, h)
      [] kind = "Set" -> Set_authz_then(zresp, h)
      [] kind = "Sign" -> Sign_authz_then(zresp, h)

\* --------------------------------------------------------- the behaviour

\* fn run: the resources share the flag and the registry it is given.
Init ==
    /\ authz_wo \in BOOLEAN
    /\ s3 \in Registries
    /\ pc = "idle"
    /\ req = NoReq
    /\ trace = <<>>
    /\ held = None
    /\ resp = NoResp
    /\ inflight = [s \in Slots |-> IdleSlot]

\* A handler is called with request `r` and returns `out`.
Handle(r, out) ==
    /\ pc = "idle"
    /\ req' = r
    /\ trace' = out.trace
    /\ pc' = out.pc
    /\ resp' = out.resp
    /\ held' = out.held
    /\ UNCHANGED <<authz_wo, s3, inflight>>

\* GET /api/v1/buckets/:bucket/objects/:object
ObjectRead ==
    \E bucket \in Buckets, object \in Objects, maybe_sub \in MaybeSubjects,
       referer \in MaybeReferers, sok \in BOOLEAN :
        Handle(ObjectReq("read", S3_DEFAULT_CLIENT, bucket, object, maybe_sub, referer),
               Object_read(bucket, object, maybe_sub, sok))

\* GET /api/v1/backends/:back/buckets/:bucket/objects/:object
ObjectReadNs ==
    \E back \in Backs, bucket \in Buckets, object \in Objects,
       maybe_sub \in MaybeSubjects, referer \in MaybeReferers, sok \in BOOLEAN :
        Handle(ObjectReq("read_ns", back, bucket, object, maybe_sub, referer),
               Object_read_ns(back, bucket, object, maybe_sub, sok))

\* GET /api/v1/buckets/:bucket/sets/:set/objects/:object
SetRead ==
    \E bucket \in Buckets, set \in SetIds, object \in Objects,
       maybe_sub \in MaybeSubjects, referer \in MaybeReferers, sok \in BOOLEAN :
        Handle(SetReq("read", S3_DEFAULT_CLIENT, bucket, set, object, maybe_sub, referer),
               Set_read(bucket, set, object, maybe_sub, referer, sok))

\* GET /api/v1/backends/:back/buckets/:bucket/sets/:set/objects/:object
SetReadNs ==
    \E back \in Backs, bucket \in Buckets, set \in SetIds, object \in Objects,
       maybe_sub \in MaybeSubjects, referer \in MaybeReferers, sok \in BOOLEAN :
        Handle(SetReq("read_ns", back, bucket, set, object, maybe_sub, referer),
               Set_read_ns(back, bucket, set, object, maybe_sub, referer, sok))

\* POST /api/v1/sign
SignSign ==
    \E bucket \in Buckets, set \in MaybeSetIds, object \in Objects, method \in Methods,
       headers \in HeaderMaps, sub \in Subjects, referer \in MaybeReferers, sok \in BOOLEAN :
        LET body == SignPayload(bucket, set, object, method, headers) IN
        Handle(SignReq("sign", S3_DEFAULT_CLIENT, body, sub, referer),
               Sign_sign(body, sub, referer, sok))

\* POST /api/v1/backends/:back/sign
SignSignNs ==
    \E back \in Backs, bucket \in Buckets, set \in MaybeSetIds, object \in Objects,
       method \in Methods, headers \in HeaderMaps, sub \in Subjects,
       referer \in MaybeReferers, sok \in BOOLEAN :
        LET body == SignPayload(bucket, set, object, method, headers) IN
        Handle(SignReq("sign_ns", back, body, sub, referer),
               Sign_sign_ns(back, body, sub, referer, sok))

\* GET /api/v1/buckets/:bucket/sets/:set/objects/:object, for any set id, on
\* a bucket whose audience restricts no referer.
SetReadAnyId ==
    \E set \in ShortSetIds \cup LongSetIds, maybe_sub \in MaybeSubjects, sok \in BOOLEAN :
        Handle(SetReq("read", S3_DEFAULT_CLIENT, "b4", set, <<"o">>, maybe_sub, None),
               Set_read("b4", set, <<"o">>, maybe_sub, None, sok))

\* Faulty variant: a transport error of the Policy Client is retried once.
Resume_retries_transport_error(kind, zresp, r) ==
    /\ pc = "authorize"
    /\ req.kind = kind
    /\ LET call == trace[Len(trace)]
           ret == Step("authorize.ret", <<zresp>>, zresp = "Allow")
           again == zresp = "TransportError"
                    /\ \A i \in DOMAIN trace : trace[i].op # "authorize.ret"
       IN  /\ trace' = IF again THEN trace \o <<ret, call>> ELSE Append(trace, ret)
           /\ resp' = IF again THEN resp ELSE r
           /\ held' = IF again THEN held ELSE None
           /\ pc' = IF again THEN "authorize" ELSE "done"
    /\ UNCHANGED <<authz_wo, s3, req, inflight>>

\* The Policy Client answers `zresp` and the and_then closure of the
\* suspended handler runs.
Resume(kind, zresp, r) ==
    /\ pc = "authorize"
    /\ req.kind = kind
    /\ trace' = Append(trace, Step("authorize.ret", <<zresp>>, zresp = "Allow"))
    /\ resp' = r
    /\ held' = None
    /\ pc' = "done"
    /\ UNCHANGED <<authz_wo, s3, req, inflight>>

ObjectAuthorized ==
    \E zresp \in ZResps : Resume("Object", zresp, Object_authz_then(zresp, held[1]))

SetAuthorized ==
    \E zresp \in ZResps : Resume("Set", zresp, Set_authz_then(zresp, held[1]))

SignAuthorized ==
    \E zresp \in ZResps : Resume("Sign", zresp, Sign_authz_then(zresp, held[1]))

\* The response is sent; the next request can be taken.
Reply ==
    /\ pc = "done"
    /\ pc' = "idle"
    /\ req' = NoReq
    /\ trace' = <<>>
    /\ held' = None
    /\ resp' = NoResp
    /\ UNCHANGED <<authz_wo, s3, inflight>>

Next ==
    \/ ObjectRead
    \/ ObjectReadNs
    \/ SetRead
    \/ SetReadNs
    \/ SignSign
    \/ SignSignNs
    \/ ObjectAuthorized
    \/ SetAuthorized
    \/ SignAuthorized
    \/ Reply

Spec == Init /\ [][Next]_vars

\* The service when every Policy Client call eventually returns: a suspended
\* handler is eventually resumed.
FairSpec ==
    /\ Spec
    /\ WF_vars(ObjectAuthorized)
    /\ WF_vars(SetAuthorized)
    /\ WF_vars(SignAuthorized)

\* The Set resource alone, read with any set id.
NextSetId ==
    \/ SetReadAnyId
    \/ SetAuthorized
    \/ Reply

SpecSetId == Init /\ [][NextSetId]_vars

\* A request arrives while others are in flight: its handler runs up to its
\* first suspension point, on a future of its own.
ConcHandle(s) ==
    /\ inflight[s].pc = "idle"
    /\ \E r \in ConcReqs, sok \in BOOLEAN, answer \in ZResps :
          LET out == Serve(r, sok) IN
          inflight' = [inflight EXCEPT ![s] =
                          [pc |-> out.pc, req |-> r, trace |-> out.trace, held |-> out.held,
                           resp |-> out.resp, sok |-> sok, answer |-> answer]]
    /\ UNCHANGED <<authz_wo, s3, pc, req, trace, held, resp>>

\* Faulty variant: the answer of the Policy Client wakes a suspended request
\* whichever request it was given for.
ConcResume_any_answer(s) ==
    /\ inflight[s].pc = "authorize"
    /\ \E t \in Slots :
          /\ inflight[t].pc = "authorize"
          /\ LET zresp == inflight[t].answer IN
             inflight' = [inflight EXCEPT ![s] =
                             [@ EXCEPT !.pc = "done",
                                       !.trace = Append(@, Step("authorize.ret", <<zresp>>,
                                                                zresp = "Allow")),
                                       !.resp = Then(inflight[s].req.kind, zresp,
                                                     inflight[s].held[1]),
                                       !.held = None]]
    /\ UNCHANGED <<authz_wo, s3, pc, req, trace, held, resp>>

\* The Policy Client call of the request in slot `s` returns: the and_then
\* closure of that request runs on what it captured.
ConcResume(s) ==
    /\ inflight[s].pc = "authorize"
    /\ LET zresp == inflight[s].answer IN
       inflight' = [inflight EXCEPT ![s] =
                       [@ EXCEPT !.pc = "done",
                                 !.trace = Append(@, Step("authorize.ret", <<zresp>>,
                                                          zresp = "Allow")),
                                 !.resp = Then(inflight[s].req.kind, zresp,
                                               inflight[s].held[1]),
                                 !.held = None]]
    /\ UNCHANGED <<authz_wo, s3, pc, req, trace, held, resp>>

\* The response of the request in slot `s` is sent.
ConcReply(s) ==
    /\ inflight[s].pc = "done"
    /\ inflight' = [inflight EXCEPT ![s] = IdleSlot]
    /\ UNCHANGED <<authz_wo, s3, pc, req, trace, held, resp>>

\* The service handling requests concurrently, interleaved at their Policy
\* Client calls.
NextConc ==
    \/ \E s \in Slots : ConcHandle(s)
    \/ \E s \in Slots : ConcResume(s)
    \/ \E s \in Slots : ConcReply(s)

SpecConc == Init /\ [][NextConc]_vars

\* ------------------------------------------------- vocabulary of the claims

Handled == pc # "idle"
Done == pc = "done"
IsRead == req.kind \in {"Object", "Set"}

\* The positions of the calls of `op` in the trace of the request.
Calls(op) == {i \in DOMAIN trace : trace[i].op = op}
PolicyCalls == Calls("authorize")
SignerCalls == Calls("presigned_url") \cup Calls("build")
\* The Policy Client call of the request has completed with Allow.
Allowed == \E i \in Calls("authorize.ret") : trace[i].ok
\* The Policy Client call of the request has completed without Allow.
Refused == \E i \in Calls("authorize.ret") : ~trace[i].ok
SignerFailed == \E i \in SignerCalls : ~trace[i].ok
SignerSucceeded == \E i \in SignerCalls : trace[i].ok

\* What a request is to be authorized as.
ClaimPath(r) ==
    IF r.set = None
    THEN <<"buckets", r.bucket, "objects", r.object>>
    ELSE <<"buckets", r.bucket, "sets", r.set[1]>>
ClaimAction(r) ==
    IF r.kind # "Sign" \/ r.method \in {"HEAD", "GET"} THEN "read"
    ELSE IF r.method = "PUT" THEN "update" ELSE "delete"

\* The checks of a request, as its inputs and the configuration decide them.
BackendRegistered == req.back \in s3
SetIdPasses == req.set = None \/ valid_set_id(req.set[1])
AudienceKnown == estimate(req.bucket).ok
SettingsKnown == AudienceKnown /\ estimate(req.bucket).val \in DOMAIN audiences_settings
RefererAccepted ==
    /\ SettingsKnown
    /\ AudienceSettings_valid_referer(audiences_settings[estimate(req.bucket).val], req.referer)

\* ------------------------------------------------------------------ claims

\* C1: no success without an allow.  An Object or Set read with the bypass
\* flag disabled is answered 303, and a Sign request (whatever the flag) is
\* answered 200, only if the Policy Client was called for that request with
\* (the audience estimated from its bucket, its subject, its resource path,
\* its action) and that call returned Allow.
C1_NoSuccessWithoutAllow ==
    (/\ Done
     /\ \/ IsRead /\ ~authz_wo /\ resp.status = SEE_OTHER
        \/ req.kind = "Sign" /\ resp.status = OK)
    => /\ AudienceKnown /\ req.sub # None
       /\ \E i \in PolicyCalls :
            /\ trace[i].args = <<estimate(req.bucket).val, req.sub[1],
                                 ClaimPath(req), ClaimAction(req)>>
            /\ \E j \in Calls("authorize.ret") : j > i /\ trace[j].ok

C1_Witness ==
    Done /\ req.kind = "Set" /\ ~authz_wo /\ resp.status = SEE_OTHER /\ Allowed

\* C2: when the Policy Client call returns Deny or fails with a transport
\* error, the response of an Object, Set or Sign request is 403 in both
\* cases and carries no Location header and no uri field, even when a signed
\* URL was already built for the request.
C2_RefusalIs403WithoutArtifact ==
    (Done /\ Refused)
    => /\ resp.status = FORBIDDEN
       /\ resp.location = None
       /\ resp.uri = None

C2_Witness ==
    /\ Done /\ req.kind = "Sign" /\ SignerSucceeded
    /\ \E i \in Calls("authorize.ret") : trace[i].args = <<"TransportError">>
    /\ resp.status = FORBIDDEN

C4_UnregisteredBackendIs404First ==
    (Handled /\ ~BackendRegistered)
    => /\ Done
       /\ resp.status = NOT_FOUND
       /\ trace = <<Step("s3.get", <<req.back>>, FALSE)>>

C4_Witness ==
    /\ Done /\ req.kind = "Set" /\ ~BackendRegistered /\ ~SetIdPasses
    /\ authz_wo /\ req.sub = None /\ resp.status = NOT_FOUND

\* C5 as stated: set-id validation is the first step of the Set pipeline, so
\* every Set read whose set id is invalid is answered 403, whatever the
\* backend alias, referer, subject and bypass flag are.
C5_InvalidSetIdIs403First ==
    (Done /\ req.kind = "Set" /\ ~SetIdPasses)
    => /\ resp.status = FORBIDDEN
       /\ trace[1].op = "valid_set_id"

\* C5 as amended: set-id validation is the second step of the Set pipeline,
\* right after backend resolution: every Set read with a registered backend
\* whose set id is invalid is answered 403 ("Invalid set id") before audience
\* estimation, referer validation or any later step, whatever the referer,
\* subject and bypass flag are (with an unregistered backend it is 404).
C5_InvalidSetIdIs403AfterBackend ==
    (Handled /\ req.kind = "Set" /\ ~SetIdPasses)
    => /\ Done
       /\ trace[1] = Step("s3.get", <<req.back>>, BackendRegistered)
       /\ IF BackendRegistered
          THEN /\ resp.status = FORBIDDEN
               /\ resp.detail = "Invalid set id"
               /\ trace = <<trace[1], Step("valid_set_id", <<req.set[1]>>, FALSE)>>
          ELSE resp.status = NOT_FOUND

C5_Witness ==
    /\ Done /\ req.kind = "Set" /\ BackendRegistered /\ ~SetIdPasses
    /\ ~AudienceKnown /\ resp.status = FORBIDDEN /\ resp.detail = "Invalid set id"

\* C6: with the bypass flag enabled no Object or Set read invokes the Policy
\* Client, and such a read with an absent subject that passes its checks
\* (registered backend; for Set also a valid set id and an accepted referer)
\* is signed and, when signing succeeds, answered 303.
C6_BypassSkipsPolicy ==
    (Handled /\ IsRead /\ authz_wo)
    => /\ Done
       /\ PolicyCalls = {}
       /\ (/\ req.sub = None
           /\ BackendRegistered
           /\ req.kind = "Set" => (SetIdPasses /\ RefererAccepted))
          => /\ SignerCalls # {}
             /\ SignerSucceeded => resp.status = SEE_OTHER

C6_Witness ==
    /\ Done /\ authz_wo /\ req.kind = "Set" /\ req.sub = None
    /\ SignerSucceeded /\ resp.status = SEE_OTHER /\ resp.location # None

\* C7 as stated: with the bypass flag disabled, every Object or Set read with
\* an absent subject is answered 403 and the Policy Client is never invoked
\* for it.
C7_NoSubjectIs403 ==
    (Done /\ IsRead /\ ~authz_wo /\ req.sub = None)
    => /\ resp.status = FORBIDDEN
       /\ PolicyCalls = {}

\* C7 as amended: with the bypass flag disabled, the Policy Client is never
\* invoked for an Object or Set read with an absent subject, and the read is
\* answered 403, unless its backend alias is unregistered or (Set, valid set
\* id) the audience of its bucket or the tenant settings of that audience are
\* missing, in which cases it is answered 404; when every check before the
\* subject check passes, the 403 is "missing an access token".
C7_NoSubjectNoPolicy ==
    (Handled /\ IsRead /\ ~authz_wo /\ req.sub = None)
    => /\ Done
       /\ PolicyCalls = {}
       /\ resp.status =
            IF ~BackendRegistered \/ (req.kind = "Set" /\ SetIdPasses /\ ~SettingsKnown)
            THEN NOT_FOUND
            ELSE FORBIDDEN
       /\ (BackendRegistered /\ (req.kind = "Set" => (SetIdPasses /\ RefererAccepted)))
          => resp.detail = "missing an access token"

C7_Witness ==
    /\ Done /\ req.kind = "Object" /\ ~authz_wo /\ req.sub = None /\ BackendRegistered
    /\ resp.status = FORBIDDEN /\ resp.detail = "missing an access token"

\* C8: a Set or Sign request with a registered backend and a valid (or, for
\* Sign, absent) set id whose bucket has no audience, or whose audience has
\* no tenant settings, is answered 404 without a Policy Client or Request
\* Signer call, with or without the bypass flag and a subject; and no Set or
\* Sign request in which an audience estimation failed ends otherwise.
C8_AudienceGapIs404 ==
    (Handled /\ req.kind \in {"Set", "Sign"})
    => /\ (BackendRegistered /\ SetIdPasses /\ ~SettingsKnown)
          => /\ Done
             /\ resp.status = NOT_FOUND
             /\ PolicyCalls = {}
             /\ SignerCalls = {}
       /\ (\E i \in Calls("estimate") : ~trace[i].ok)
          => (Done /\ resp.status = NOT_FOUND)

C8_Witness ==
    /\ Done /\ req.kind = "Sign" /\ req.set = None /\ BackendRegistered
    /\ ~AudienceKnown /\ resp.status = NOT_FOUND

\* C9: a Set or Sign request that reaches referer validation (registered
\* backend, valid or absent set id, tenant settings found) with a referer,
\* possibly absent, that the settings do not accept is answered 403 without
\* a Policy Client or signer call, also with the bypass flag enabled; with a
\* referer the settings accept it goes on to the next step (Sign: the method
\* is parsed; Set: the bypass and subject check, then the signer).
C9_RefererEnforced ==
    (Handled /\ req.kind \in {"Set", "Sign"}
        /\ BackendRegistered /\ SetIdPasses /\ SettingsKnown)
    => /\ Calls("valid_referer") # {}
       /\ IF ~RefererAccepted
          THEN /\ Done
               /\ resp.status = FORBIDDEN
               /\ resp.detail = "Invalid request"
               /\ PolicyCalls = {}
               /\ SignerCalls = {}
          ELSE /\ resp.detail # "Invalid request"
               /\ req.kind = "Sign" => Calls("parse_action") # {}
               /\ req.kind = "Set"
                  => IF authz_wo \/ req.sub # None
                     THEN SignerCalls # {}
                     ELSE resp.detail = "missing an access token"

C9_Witness ==
    /\ Done /\ req.kind = "Set" /\ authz_wo /\ BackendRegistered /\ SetIdPasses
    /\ req.bucket = "b1" /\ req.referer = Some("https://b.example")
    /\ resp.status = FORBIDDEN /\ resp.detail = "Invalid request"

C11_SignInvalidSetIdIs403 ==
    (Handled /\ req.kind = "Sign" /\ BackendRegistered)
    => /\ (req.set # None /\ ~valid_set_id(req.set[1]))
          => /\ Done
             /\ resp.status = FORBIDDEN
             /\ resp.detail = "Invalid set id"
             /\ trace = <<Step("s3.get", <<req.back>>, TRUE),
                          Step("valid_set_id", <<req.set[1]>>, FALSE)>>
       /\ req.set = None
          => /\ Calls("valid_set_id") = {}
             /\ resp.detail # "Invalid set id"
             /\ trace[2].op = "estimate"

C11_Witness ==
    /\ Done /\ req.kind = "Sign" /\ BackendRegistered
    /\ req.set = Some(<<"x">>) /\ req.method = "PATCH" /\ ~AudienceKnown
    /\ resp.status = FORBIDDEN /\ resp.detail = "Invalid set id"

\* The table of actions: method -> action, for the methods that have one.
ClaimActionTable ==
    [m \in {"HEAD", "GET", "PUT", "DELETE"} |->
        CASE m = "HEAD" -> "read" [] m = "GET" -> "read"
          [] m = "PUT" -> "update" [] m = "DELETE" -> "delete"]

\* C12: parse_action(m) is read for HEAD and GET, update for PUT, delete for
\* DELETE and an error for every other method; a Sign request that reaches
\* method parsing (registered backend, valid or absent set id, accepted
\* referer) with an unparseable method is answered 403 without a signer or
\* Policy Client call, and with a parseable one the signed request is built
\* and, when it is built, the Policy Client is invoked, always with exactly
\* the action of the table.
C12_ParseAction ==
    /\ \A m \in Methods :
         IF m \in DOMAIN ClaimActionTable
         THEN parse_action(m) = [ok |-> TRUE, val |-> ClaimActionTable[m]]
         ELSE ~parse_action(m).ok
    /\ (Handled /\ req.kind = "Sign" /\ BackendRegistered /\ SetIdPasses /\ RefererAccepted)
       => /\ Calls("parse_action") # {}
          /\ IF req.method \notin DOMAIN ClaimActionTable
             THEN /\ Done
                  /\ resp.status = FORBIDDEN
                  /\ resp.detail = "invalid method"
                  /\ SignerCalls = {}
                  /\ PolicyCalls = {}
             ELSE /\ SignerCalls # {}
                  /\ SignerSucceeded => PolicyCalls # {}
    /\ req.kind = "Sign"
       => \A i \in PolicyCalls :
            /\ req.method \in DOMAIN ClaimActionTable
            /\ trace[i].args[4] = ClaimActionTable[req.method]

C12_Witness ==
    /\ Done /\ req.kind = "Sign" /\ req.method = "DELETE" /\ Allowed
    /\ \E i \in PolicyCalls : trace[i].args[4] = "delete"
    /\ resp.status = OK

\* What valid_set_id did with the set id of the request.
SetIdChecked == Handled /\ req.kind = "Set" /\ BackendRegistered
SetIdAccepted == \E i \in Calls("valid_set_id") : trace[i].ok

IsDecimalDigits(str) ==
    /\ str # <<>>
    /\ \A i \in 1..Len(str) : str[i] \in {"0", "1", "2", "3", "4", "5", "6", "7", "8", "9"}

\* C13 as stated: valid_set_id(s) is true if and only if s is a non-empty
\* string of decimal digits and nothing else (no sign, letters, dashes or
\* suffix).
C13_ValidIffDecimalDigits ==
    SetIdChecked => (SetIdAccepted <=> IsDecimalDigits(req.set[1]))

\* The long strings that denote a value of at most u128::MAX.
ClaimLongFitting ==
    {U128MaxString, <<"0">> \o U128MaxString, <<"+">> \o U128MaxString}

\* C13 as amended: valid_set_id(s) is true if and only if s is a non-empty
\* string of decimal digits, optionally preceded by one "+", whose value is
\* at most u128::MAX = 2^128 - 1 (no "-", letters, dashes or suffix).
C13_ValidIffOptionalPlusDigitsInRange ==
    SetIdChecked
    => LET str == req.set[1]
           digits == IF str # <<>> /\ str[1] = "+" THEN SubSeq(str, 2, Len(str)) ELSE str
       IN  SetIdAccepted <=>
             /\ IsDecimalDigits(digits)
             /\ str \in LongSetIds => str \in ClaimLongFitting

C13_Witness ==
    /\ Done /\ req.kind = "Set" /\ BackendRegistered /\ authz_wo
    /\ req.set = Some(<<"+", "7">>) /\ SetIdAccepted
    /\ resp.status = SEE_OTHER

\* The storage key of a request.
ClaimKey(r) ==
    IF r.set = None
    THEN r.object
    ELSE r.set[1] \o <<".">> \o r.object

\* C14: the key handed to the signer and the resource path handed to the
\* Policy Client follow from the presence of a set: with a set (Set reads,
\* on the bypass path too, and Sign requests with a set) the key is
\* "{set}.{object}" and the path ["buckets", bucket, "sets", set]; without
\* one (Object reads, Sign requests without a set) the key is the object
\* name unchanged and the path ["buckets", bucket, "objects", object].
C14_KeyAndPathBySet ==
    Handled
    => /\ \A i \in SignerCalls : trace[i].args[4] = ClaimKey(req)
       /\ \A i \in PolicyCalls : trace[i].args[3] = ClaimPath(req)
       /\ resp.location # None => resp.location[1][5] = ClaimKey(req)
       /\ resp.uri # None => resp.uri[1][5] = ClaimKey(req)

C14_Witness ==
    /\ Done /\ req.kind = "Set" /\ authz_wo /\ req.set = Some(<<"1", "2">>)
    /\ req.object = <<"o">>
    /\ \E i \in SignerCalls : trace[i].args[4] = <<"1", "2", ".", "o">>
    /\ resp.status = SEE_OTHER

ChecksPass ==
    /\ BackendRegistered
    /\ SetIdPasses
    /\ req.kind \in {"Set", "Sign"} => RefererAccepted
    /\ req.kind = "Sign" => req.method \in DOMAIN ClaimActionTable
    /\ req.sub # None

\* C16: when the backend alias resolves (the default alias when the request
\* names none), every structural and referer check passes, a subject is
\* present, the Policy Client answers Allow and signing succeeds, an Object
\* or Set read is answered 303 with the URL the signer returned for a GET on
\* (bucket, key) as Location and an empty body, and a Sign request is
\* answered 200 with the URI built for its method, bucket, key and headers;
\* such a request does reach the signer and the Policy Client.
C16_SuccessPath ==
    /\ (Handled /\ req.route \in {"read", "sign"})
       => /\ req.back = S3_DEFAULT_CLIENT
          /\ trace[1] = Step("s3.get", <<S3_DEFAULT_CLIENT>>, BackendRegistered)
    /\ (Handled /\ ChecksPass /\ AudienceKnown /\ (IsRead => ~authz_wo))
       => /\ SignerCalls # {}
          /\ (IsRead \/ SignerSucceeded) => PolicyCalls # {}
    /\ (Done /\ ChecksPass /\ Allowed /\ SignerSucceeded)
       => resp =
            IF IsRead
            THEN [status |-> SEE_OTHER, kind |-> "", detail |-> "", uri |-> None, body |-> "",
                  location |->
                      Some(presigned_url(req.back, "GET", req.bucket, ClaimKey(req), TRUE).val)]
            ELSE [status |-> OK, kind |-> "", detail |-> "", location |-> None, body |-> "json",
                  uri |->
                      Some(S3SignedRequestBuilder_build(req.back, req.method, req.bucket,
                                                        ClaimKey(req), req.headers, TRUE).val)]

C16_Witness ==
    /\ Done /\ req.kind = "Object" /\ req.route = "read" /\ ChecksPass
    /\ Allowed /\ SignerSucceeded
    /\ resp.status = SEE_OTHER /\ resp.body = ""
    /\ resp.location = Some(<<"url", "default", "GET", req.bucket, req.object>>)

\* The steps and the answer of an Object read, told from the flag, the
\* registry, the backend, the bucket, the object, the subject, the signer's
\* result `sok` and the Policy Client's answer `zresp` ("" while it is
\* awaited); neither the Referer nor the settings of an audience are among them.
ClaimObjectRun(r, sok, zresp) ==
    LET get == Step("s3.get", <<r.back>>, r.back \in s3)
        sign == Step("presigned_url", <<r.back, "GET", r.bucket, r.object>>, sok)
        est == Step("estimate", <<r.bucket>>, r.bucket \in DOMAIN AudienceOf)
        signed == IF sok
                  THEN [status |-> SEE_OTHER,
                        location |-> Some(<<"url", r.back, "GET", r.bucket, r.object>>)]
                  ELSE [status |-> UNPROCESSABLE_ENTITY, location |-> None]
        refused(status) == [status |-> status, location |-> None]
    IN  IF r.back \notin s3
        THEN [trace |-> <<get>>, pc |-> "done", ans |-> refused(NOT_FOUND)]
        ELSE IF authz_wo
        THEN [trace |-> <<get, sign>>, pc |-> "done", ans |-> signed]
        ELSE IF r.sub = None
        THEN [trace |-> <<get>>, pc |-> "done", ans |-> refused(FORBIDDEN)]
        ELSE IF r.bucket \notin DOMAIN AudienceOf
        THEN [trace |-> <<get, sign, est>>, pc |-> "done", ans |-> refused(FORBIDDEN)]
        ELSE LET call == Step("authorize",
                              <<AudienceOf[r.bucket], r.sub[1],
                                <<"buckets", r.bucket, "objects", r.object>>, "read">>, TRUE)
                 ret == Step("authorize.ret", <<zresp>>, zresp = "Allow")
             IN  IF zresp = ""
                 THEN [trace |-> <<get, sign, est, call>>, pc |-> "authorize",
                       ans |-> refused(0)]
                 ELSE [trace |-> <<get, sign, est, call, ret>>, pc |-> "done",
                       ans |-> IF zresp = "Allow" THEN signed ELSE refused(FORBIDDEN)]

\* C17: Object reads are not referer-restricted: the steps an Object read
\* takes and the response it receives are those told from the request
\* without its Referer and without the settings of the bucket's audience, so
\* two Object reads that differ only in these take the same steps and receive
\* the same response; no Object read consults the settings or validates a
\* referer.
C17_ObjectIgnoresReferer ==
    (Handled /\ req.kind = "Object")
    => /\ Calls("audiences_settings.get") \cup Calls("valid_referer") = {}
       /\ \E sok \in BOOLEAN, zresp \in ZResps \cup {""} :
            LET run == ClaimObjectRun(req, sok, zresp) IN
            /\ trace = run.trace
            /\ pc = run.pc
            /\ resp.status = run.ans.status
            /\ resp.location = run.ans.location

C17_Witness ==
    /\ Done /\ req.kind = "Object" /\ ~authz_wo
    /\ req.bucket = "b1" /\ req.referer = Some("https://b.example")
    /\ ~RefererAccepted
    /\ Allowed /\ resp.status = SEE_OTHER

\* C18: in the Sign resource the signed request is built before the Policy
\* Client is called: every Policy Client call of a Sign request comes after
\* a successful build for that request, and when the builder fails the
\* request ends with the builder's own error and no Policy Client call.
C18_SignBuildsBeforePolicy ==
    (Handled /\ req.kind = "Sign")
    => /\ \A i \in PolicyCalls : \E j \in Calls("build") : j < i /\ trace[j].ok
       /\ SignerFailed
          => /\ Done
             /\ PolicyCalls = {}
             /\ Calls("authorize.ret") = {}
             /\ resp = S3SignedRequestBuilder_build(req.back, req.method, req.bucket,
                                                    ClaimKey(req), req.headers, FALSE).val

C18_Witness ==
    /\ Done /\ req.kind = "Sign" /\ ChecksPass /\ AudienceKnown
    /\ SignerFailed /\ PolicyCalls = {}
    /\ resp.status = BuildErrorStatus

\* C19: no retry.  For every request the Policy Client is invoked at most
\* once and the Request Signer at most once, and a transport failure of the
\* Policy Client ends the request at once with 403: its return is the last
\* step of the request and no second Policy Client call follows.
C19_NoRetry ==
    Handled
    => /\ Cardinality(PolicyCalls) <= 1
       /\ Cardinality(SignerCalls) <= 1
       /\ Cardinality(Calls("authorize.ret")) <= 1
       /\ \A i \in Calls("authorize.ret") :
            trace[i].args = <<"TransportError">>
            => /\ Done
               /\ i = Len(trace)
               /\ resp.status = FORBIDDEN
               /\ resp.location = None /\ resp.uri = None

C19_Witness ==
    /\ Done /\ resp.status = FORBIDDEN
    /\ Cardinality(PolicyCalls) = 1 /\ Cardinality(SignerCalls) = 1
    /\ trace[Len(trace)] = Step("authorize.ret", <<"TransportError">>, FALSE)

\* The statuses a response can carry.
ClaimStatuses == {OK, SEE_OTHER, FORBIDDEN, NOT_FOUND, UNPROCESSABLE_ENTITY}

\* A request that is handled is eventually answered, provided the Policy
\* Client returns.
EventuallyAnswered == (pc = "authorize") ~> Done

\* One response, and nothing after it: an answered request carries a status
\* of ClaimStatuses, and the only step from an answered request sends the
\* response and runs no further step for it.
AnsweredOnce ==
    /\ [](Done => resp.status \in ClaimStatuses)
    /\ [](Handled /\ ~Done => resp = NoResp)
    /\ [][Done => (pc' = "idle" /\ trace' = <<>>)]_vars

RunAlone(r, sok, zresp) ==
    LET out == Serve(r, sok) IN
    IF out.pc = "done"
    THEN [trace |-> out.trace, resp |-> out.resp]
    ELSE [trace |-> Append(out.trace, Step("authorize.ret", <<zresp>>, zresp = "Allow")),
          resp |-> Then(r.kind, zresp, out.held[1])]

SlotSigned(slot) == slot.pc = "done" /\ slot.resp.status \in {OK, SEE_OTHER}
\* The storage key the signer was called with for the request of a slot.
SlotKey(slot) ==
    LET i == CHOOSE i \in DOMAIN slot.trace : slot.trace[i].op \in {"presigned_url", "build"}
    IN  slot.trace[i].args[4]
\* The resource path the request of a slot was authorized against, if it was.
SlotPath(slot) ==
    IF \E i \in DOMAIN slot.trace : slot.trace[i].op = "authorize"
    THEN LET i == CHOOSE i \in DOMAIN slot.trace : slot.trace[i].op = "authorize"
         IN  Some(slot.trace[i].args[3])
    ELSE None
\* The request of a slot went through the referer check.
SlotRefererChecked(slot) ==
    \E i \in DOMAIN slot.trace : slot.trace[i].op = "valid_referer"

\* C22: the storage key a request gets signed determines the authorization
\* surface it went through: two requests on the same backend and bucket that
\* both obtain a signed URL for the same storage key were authorized against
\* the same resource path and were both, or neither, subject to the referer
\* check; so no Object read obtains a signed URL for a key "{set}.{object}"
\* that a Set read signs under the "sets" path and the referer check.
C22_KeyDeterminesSurface ==
    \A s, t \in Slots :
        LET a == inflight[s]
            b == inflight[t]
        IN  (/\ SlotSigned(a) /\ SlotSigned(b)
             /\ a.req.back = b.req.back /\ a.req.bucket = b.req.bucket
             /\ SlotKey(a) = SlotKey(b))
            => /\ SlotPath(a) = SlotPath(b)
               /\ SlotRefererChecked(a) = SlotRefererChecked(b)

====
